---- MODULE Spec2Model ----
(***************************************************************************)
(* Chain-reaction board game (color_war, src/main.rs): the simulation part *)
(* of GameState -- grid, turn order, first moves, elimination, winner --   *)
(* and its only mutator place_tile, with the two loops of a call (the      *)
(* explosion queue of check_explosions and the dead-player skip of the     *)
(* turn advance) taken one iteration per step, so that a loop that does    *)
(* not end is a behaviour of the model and not a diverging evaluation.     *)
(* Rendering and animation fields do not influence the simulation and are  *)
(* left out.                                                               *)
(***************************************************************************)
EXTENDS Integers, Sequences, FiniteSets, TLC

\* ---------------------------------------------------------------- constants
ROWS == 8
COLS == 8
PLAYERS == 4
\* max_capacity(): the same for every cell
Capacity == 4
\* the charge a first move puts on the cell
FirstMovePower == 3
\* Cell.power is a u8
U8Mod == 256
\* Option<usize>::None of Cell.owner and GameState.winner
None == -1

\* ------------------------------------------------------------------- bounds
\* Clicks come from the top-left ClickRows x ClickCols corner of the board
\* (corner, edge and interior cells are all in it); the rest of the board is
\* only reached by explosions.
ClickRows == 2
ClickCols == 3
\* number of legal placements explored from the start of a game
MaxMoves == 7
\* the shuffle outcomes explored are the orders that end with one of the
\* LastPlayers highest-numbered players
LastPlayers == 1
\* The long-game specification: clicks come from the same corner without the
\* corner cell itself, the shuffle outcome is the identity order, and
\* LongMoves legal placements are explored.
LongMoves == 60
\* longest explosion queue followed; a propagation that outgrows it is cut off
MaxQueue == 4096

Rows == 0 .. (ROWS - 1)
Cols == 0 .. (COLS - 1)
Players == 0 .. (PLAYERS - 1)
Cells == Rows \X Cols

Clicks == (0 .. (ClickRows - 1)) \X (0 .. (ClickCols - 1))
LongClicks == Clicks \ {<<0, 0>>}

VARIABLES
    grid,            \* [Cells -> [owner, power]]
    current_player,
    player_order,    \* sequence 1..PLAYERS of players; position i is turn i-1
    turn_number,
    first_moves,     \* [Players -> BOOLEAN], TRUE = first move still to make
    players_alive,
    game_over,
    winner,
    queue,           \* the VecDeque of check_explosions: <<row, col, wave>>
    pc,              \* where the running place_tile call is, or how the
                     \* latest one returned ("idle": nothing running, after
                     \* a placement or at the start; "ignored": nothing
                     \* running, the latest call returned without placing)
    arg,             \* <<row, col>> of the latest place_tile call
    moves,           \* legal placements made so far
    mover_turn,      \* observer: turn_number when the latest legal placement
                     \* was made (the mover is player_order[mover_turn])
    out              \* observer: the players seen without a cell when a
                     \* placement returned with all first moves done

vars == <<grid, current_player, player_order, turn_number, first_moves,
          players_alive, game_over, winner, queue, pc, arg, moves, mover_turn,
          out>>

\* Cell::new()
NewCell == [owner |-> None, power |-> 0]

\* the outcomes of player_order.shuffle(): every permutation of 0..PLAYERS-1
PlayerOrders ==
    {o \in [1 .. PLAYERS -> Players] :
        \A i, j \in 1 .. PLAYERS : i # j => o[i] # o[j]}

\* GameState::new() given the outcome of the shuffle
NewGame(order) ==
    /\ grid = [cell \in Cells |-> NewCell]
    /\ player_order = order
    /\ current_player = order[1]
    /\ turn_number = 0
    /\ first_moves = [p \in Players |-> TRUE]
    /\ players_alive = [p \in Players |-> TRUE]
    /\ game_over = FALSE
    /\ winner = None
    /\ queue = << >>
    /\ pc = "idle"
    /\ arg = <<0, 0>>
    /\ moves = 0
    /\ mover_turn = 0
    /\ out = {}

Init ==
    \E order \in PlayerOrders :
        /\ order[PLAYERS] >= PLAYERS - LastPlayers
        /\ NewGame(order)

\* the identity order, one outcome of the shuffle
InitLong == NewGame([i \in 1 .. PLAYERS |-> i - 1])

\* ------------------------------------------------------------ get_neighbors
\* a slip of the bounds tests: the board wraps around at its borders
get_neighborsWrapped(row, col) ==
    << <<(row + ROWS - 1) % ROWS, col>>, <<(row + 1) % ROWS, col>>,
       <<row, (col + COLS - 1) % COLS>>, <<row, (col + 1) % COLS>> >>

\* in the order the code pushes them: up, down, left, right
get_neighbors(row, col) ==
    (IF row > 0 THEN << <<row - 1, col>> >> ELSE << >>)
    \o (IF row < ROWS - 1 THEN << <<row + 1, col>> >> ELSE << >>)
    \o (IF col > 0 THEN << <<row, col - 1>> >> ELSE << >>)
    \o (IF col < COLS - 1 THEN << <<row, col + 1>> >> ELSE << >>)

max_capacity(row, col) == Capacity

\* ------------------------------------------------------- check_explosions
\* the cells in the order of the scan "for r in 0..ROWS { for c in 0..COLS"
ScanOrder == [i \in 1 .. (ROWS * COLS) |-> <<(i - 1) \div COLS, (i - 1) % COLS>>]

\* the queue after the scan: every cell at or above capacity, wave 0
InitialQueue(g) ==
    LET full == SelectSeq(ScanOrder,
                          LAMBDA cell : g[cell].power >= max_capacity(cell[1], cell[2]))
    IN  [i \in 1 .. Len(full) |-> <<full[i][1], full[i][2], 0>>]

\* a slip of the enqueue test: only a cell above capacity is enqueued
ReachesCapacityAbove(power, row, col) == power > max_capacity(row, col)

\* the enqueue test of the neighbour loop
ReachesCapacity(power, row, col) == power >= max_capacity(row, col)

\* "for (nr, nc) in self.get_neighbors(r, c) { ... }" from the i-th neighbour
\* on.  neighbor.power += 1 on a u8 holding 255 panics when the build checks
\* overflow (checked) and wraps to 0 when it does not; end tells which of the
\* two happened, if any.
RECURSIVE NeighborLoop(_, _, _, _, _, _, _, _)
NeighborLoop(nbrs, i, g, q, owner, wave, checked, end) ==
    IF i > Len(nbrs)
    THEN [grid |-> g, queue |-> q, end |-> end]
    ELSE LET n == nbrs[i]
             overflow == g[n].power + 1 >= U8Mod
             power == (g[n].power + 1) % U8Mod
             g2 == [g EXCEPT ![n] = [owner |-> owner, power |-> power]]
             q2 == IF ReachesCapacity(power, n[1], n[2])
                   THEN Append(q, <<n[1], n[2], wave + 1>>)
                   ELSE q
         IN  IF overflow /\ checked
             THEN [grid |-> g, queue |-> q, end |-> "panicked"]
             ELSE NeighborLoop(nbrs, i + 1, g2, q2, owner, wave, checked,
                               IF overflow THEN "wrapped" ELSE end)

\* a slip of the dequeue: pop_back instead of pop_front
ExplodeBack(g, q, checked) ==
    LET r == q[Len(q)][1]
        c == q[Len(q)][2]
        wave == q[Len(q)][3]
        owner == g[<<r, c>>].owner
        cleared == [g EXCEPT ![<<r, c>>] = [owner |-> None, power |-> 0]]
    IN  NeighborLoop(get_neighbors(r, c), 1, cleared, SubSeq(q, 1, Len(q) - 1),
                     owner, wave, checked, "ok")

\* a slip of the owner read: grid[c][r] instead of grid[r][c]
ExplodeSwapped(g, q, checked) ==
    LET r == Head(q)[1]
        c == Head(q)[2]
        wave == Head(q)[3]
        owner == g[<<c, r>>].owner
        cleared == [g EXCEPT ![<<r, c>>] = [owner |-> None, power |-> 0]]
    IN  NeighborLoop(get_neighbors(r, c), 1, cleared, Tail(q), owner, wave,
                     checked, "ok")

\* one iteration of "while let Some((r, c, wave)) = queue.pop_front()"
Explode(g, q, checked) ==
    LET r == Head(q)[1]
        c == Head(q)[2]
        wave == Head(q)[3]
        owner == g[<<r, c>>].owner
        cleared == [g EXCEPT ![<<r, c>>] = [owner |-> None, power |-> 0]]
    IN  NeighborLoop(get_neighbors(r, c), 1, cleared, Tail(q), owner, wave,
                     checked, "ok")

\* ------------------------------------------------------ check_elimination
\* a slip of the scan: the break leaves both loops after the first row
HasTilesFirstRow(g, player) ==
    \E cell \in Cells : cell[1] = 0 /\ g[cell].owner = player

\* the scan "for row .. for col .. if owner == Some(player)" of one player
HasTiles(g, player) == \E cell \in Cells : g[cell].owner = player

\* a slip of the winner lookup: the position of the first dead player
FirstDead(alive) ==
    IF \E p \in Players : ~alive[p]
    THEN CHOOSE p \in Players : ~alive[p] /\ \A q \in Players : q < p => alive[q]
    ELSE None

\* players_alive.iter().position(|&alive| alive)
FirstAlive(alive) ==
    IF \E p \in Players : alive[p]
    THEN CHOOSE p \in Players : alive[p] /\ \A q \in Players : q < p => ~alive[q]
    ELSE None

AliveCount(alive) == Cardinality({p \in Players : alive[p]})

\* the elimination is decided when exactly this many players are alive
WinningCount == 1

\* a slip of the early return: it is taken only while nobody has moved
AllFirstMovesPending(fm) == \A p \in Players : fm[p]

\* the early return of check_elimination
AnyFirstMovePending(fm) == \E p \in Players : fm[p]

check_elimination(g, fm, alive, over, win) ==
    IF AnyFirstMovePending(fm)
    THEN [players_alive |-> alive, game_over |-> over, winner |-> win]
    ELSE LET alive2 == [p \in Players |-> HasTiles(g, p)]
         IN  IF AliveCount(alive2) = WinningCount
             THEN [players_alive |-> alive2, game_over |-> TRUE,
                   winner |-> FirstAlive(alive2)]
             ELSE [players_alive |-> alive2, game_over |-> over, winner |-> win]

\* -------------------------------------------------------------- place_tile
\* a slip of the legality test: a first move may take any cell
IsLegalAnyFirst(g, fm, player, cell) ==
    \/ fm[player]
    \/ ~fm[player] /\ g[cell].owner = player

\* the legality test of place_tile
IsLegal(g, fm, player, cell) ==
    \/ fm[player] /\ g[cell].owner = None
    \/ ~fm[player] /\ g[cell].owner = player

\* a slip of the entry test: the game_over return is missing
AcceptsAfterEnd(over, g, fm, player, cell) == IsLegal(g, fm, player, cell)

\* place_tile goes on to place: the game is not over and the cell is legal
Accepts(over, g, fm, player, cell) == ~over /\ IsLegal(g, fm, player, cell)

\* a slip of the placement: the first move charges the cell to capacity
PlacedFull(g, fm, player, cell) ==
    IF fm[player]
    THEN [owner |-> player, power |-> Capacity]
    ELSE [owner |-> player, power |-> (g[cell].power + 1) % U8Mod]

\* a slip of the placement: the first move adds one instead of setting 3
PlacedIncrement(g, fm, player, cell) ==
    [owner |-> player, power |-> (g[cell].power + 1) % U8Mod]

\* the cell after a legal placement
Placed(g, fm, player, cell) ==
    IF fm[player]
    THEN [owner |-> player, power |-> FirstMovePower]
    ELSE [owner |-> player, power |-> (g[cell].power + 1) % U8Mod]

\* a slip of the turn advance: the turn moves backwards through the order
NextTurnBack(t) == (t + PLAYERS - 1) % PLAYERS

\* turn_number = (turn_number + 1) % players
NextTurn(t) == (t + 1) % PLAYERS

\* what the observer records when a placement returns: the players without a
\* cell, once all first moves are done
Tileless(g, fm) ==
    IF \E p \in Players : fm[p] THEN {} ELSE {p \in Players : ~HasTiles(g, p)}

\* place_tile(row, col) up to and including the scan of check_explosions
PlaceTile(row, col, limit) ==
    /\ pc \in {"idle", "ignored"}
    /\ arg' = <<row, col>>
    /\ IF Accepts(game_over, grid, first_moves, current_player, <<row, col>>)
       THEN /\ moves < limit
            /\ grid' = [grid EXCEPT ![<<row, col>>] =
                            Placed(grid, first_moves, current_player, <<row, col>>)]
            /\ first_moves' = [first_moves EXCEPT ![current_player] = FALSE]
            /\ queue' = InitialQueue(grid')
            /\ pc' = "explode"
            /\ moves' = moves + 1
            /\ mover_turn' = turn_number
            /\ UNCHANGED <<current_player, player_order, turn_number,
                           players_alive, game_over, winner, out>>
       ELSE /\ pc' = "ignored"
            /\ UNCHANGED <<grid, current_player, player_order, turn_number,
                           first_moves, players_alive, game_over, winner,
                           queue, moves, mover_turn, out>>

\* one explosion of the queue of check_explosions.  A panic ends the
\* process.  A propagation is not followed further once a power has wrapped
\* or the queue is longer than MaxQueue ("cut").
ExplodeStep ==
    /\ pc = "explode"
    /\ queue # << >>
    /\ IF Len(queue) > MaxQueue
       THEN /\ pc' = "cut"
            /\ UNCHANGED <<grid, queue>>
       ELSE \E checked \in BOOLEAN :
               LET res == Explode(grid, queue, checked)
               IN  /\ grid' = res.grid
                   /\ queue' = res.queue
                   /\ pc' = CASE res.end = "panicked" -> "panicked"
                               [] res.end = "wrapped" -> "cut"
                               [] OTHER -> "explode"
    /\ UNCHANGED <<current_player, player_order, turn_number, first_moves,
                   players_alive, game_over, winner, arg, moves, mover_turn,
                   out>>

\* a slip of the turn advance: the test "if !self.game_over" is missing
CheckEliminationAlwaysAdvance ==
    /\ pc = "explode"
    /\ queue = << >>
    /\ LET res == check_elimination(grid, first_moves, players_alive, game_over, winner)
       IN  /\ players_alive' = res.players_alive
           /\ game_over' = res.game_over
           /\ winner' = res.winner
    /\ turn_number' = NextTurn(turn_number)
    /\ current_player' = player_order[turn_number' + 1]
    /\ pc' = "skip"
    /\ UNCHANGED <<grid, player_order, first_moves, queue, arg, moves,
                   mover_turn, out>>

\* the queue is empty: check_elimination, then the first increment of the
\* turn advance unless the game just ended
CheckEliminationAndAdvance ==
    /\ pc = "explode"
    /\ queue = << >>
    /\ LET res == check_elimination(grid, first_moves, players_alive, game_over, winner)
       IN  /\ players_alive' = res.players_alive
           /\ game_over' = res.game_over
           /\ winner' = res.winner
           /\ IF ~res.game_over
              THEN /\ turn_number' = NextTurn(turn_number)
                   /\ current_player' = player_order[turn_number' + 1]
                   /\ pc' = "skip"
                   /\ out' = out
              ELSE /\ UNCHANGED <<turn_number, current_player>>
                   /\ pc' = "idle"
                   /\ out' = out \cup Tileless(grid, first_moves)
    /\ UNCHANGED <<grid, player_order, first_moves, queue, arg, moves,
                   mover_turn>>

\* a slip of the turn advance: the skip loop is missing
SkipNobody ==
    /\ pc = "skip"
    /\ pc' = "idle"
    /\ out' = out \cup Tileless(grid, first_moves)
    /\ UNCHANGED <<grid, current_player, player_order, turn_number, first_moves,
                   players_alive, game_over, winner, queue, arg, moves,
                   mover_turn>>

\* one test of "while !self.players_alive[self.current_player]"
SkipEliminated ==
    /\ pc = "skip"
    /\ IF ~players_alive[current_player]
       THEN /\ turn_number' = NextTurn(turn_number)
            /\ current_player' = player_order[turn_number' + 1]
            /\ pc' = "skip"
            /\ out' = out
       ELSE /\ UNCHANGED <<turn_number, current_player>>
            /\ pc' = "idle"
            /\ out' = out \cup Tileless(grid, first_moves)
    /\ UNCHANGED <<grid, player_order, first_moves, players_alive, game_over,
                   winner, queue, arg, moves, mover_turn>>

Next ==
    \/ \E cell \in Clicks : PlaceTile(cell[1], cell[2], MaxMoves)
    \/ ExplodeStep
    \/ CheckEliminationAndAdvance
    \/ SkipEliminated

Spec == Init /\ [][Next]_vars

NextLong ==
    \/ \E cell \in LongClicks : PlaceTile(cell[1], cell[2], LongMoves)
    \/ ExplodeStep
    \/ CheckEliminationAndAdvance
    \/ SkipEliminated

\* a long game
SpecLong == InitLong /\ [][NextLong]_vars

\* a call that was started runs on: the loops of place_tile are not preempted
FairLong == SpecLong /\ WF_vars(ExplodeStep) /\ WF_vars(CheckEliminationAndAdvance)
                     /\ WF_vars(SkipEliminated)

TypeOK ==
    /\ pc \in {"idle", "ignored", "explode", "skip", "panicked", "cut"}
    /\ \A cell \in Cells : grid[cell].owner \in Players \cup {None}
                           /\ grid[cell].power \in 0 .. (U8Mod - 1)
    /\ current_player \in Players
    /\ turn_number \in 0 .. (PLAYERS - 1)
    /\ winner \in Players \cup {None}

\* ------------------------------------------------------------- properties
AtRest == pc \in {"idle", "ignored"}
AllFirstMovesDone == \A p \in Players : ~first_moves[p]
Owners == {p \in Players : HasTiles(grid, p)}
\* the position of player_order just before the current turn
PreviousTurn == (turn_number + PLAYERS - 1) % PLAYERS

\* C1: after a completed place_tile call every cell of the board has power
\* strictly below the capacity 4.
C1_PowerBelowCapacity ==
    AtRest => \A cell \in Cells : grid[cell].power < Capacity

\* a call has returned after explosions carried power out of the click corner
C1_Witness ==
    /\ AtRest
    /\ moves > 0
    /\ \E cell \in Cells \ Clicks : grid[cell].power > 0

\* C2: at rest, a cell has no owner if and only if its power is 0.
C2_OwnerIffPower ==
    AtRest => \A cell \in Cells : (grid[cell].owner = None) <=> (grid[cell].power = 0)

\* C3: a propagation that has started runs until its queue is empty and the
\* call goes on to the elimination check.  A propagation that is no longer
\* followed ("cut": a wrapped power, or more than MaxQueue entries) is not
\* counted against the claim; one that panicked never empties its queue.
C3_PropagationTerminates ==
    (pc = "explode") ~> (pc \in {"idle", "skip", "cut"})

\* the placement the claim calls illegal, for the player to move
IllegalFor(cell) ==
    \/ ~first_moves[current_player] /\ grid[cell].owner # current_player
    \/ first_moves[current_player] /\ grid[cell].owner # None

\* C4: a place_tile call on a cell that is illegal for the current player
\* changes no cell, none of first_moves, players_alive, game_over, winner,
\* and advances neither turn_number nor current_player.
C4_IllegalPlacementIsNoOp ==
    [][(AtRest /\ IllegalFor(arg'))
        => /\ AtRest'
           /\ UNCHANGED <<grid, first_moves, players_alive, game_over, winner,
                          turn_number, current_player, queue>>]_vars

\* two first moves were made and then the cell of the first mover was
\* clicked by a later player, who has no tile yet
C4_Witness ==
    /\ pc = "ignored"
    /\ ~game_over
    /\ moves = 2
    /\ first_moves[current_player]
    /\ grid[arg].owner = player_order[1]

\* C5: while the current player p still has its first move to make,
\* place_tile is accepted exactly when the target cell is unowned; the cell
\* then becomes (p, 3), p's first move is marked done, and no other cell
\* changes, neither in the placement nor in the rest of the call.
C5_FirstMoveRule ==
    [][/\ (AtRest /\ first_moves[current_player])
          => IF grid[arg'].owner = None
             THEN /\ grid' = [grid EXCEPT ![arg'] =
                                 [owner |-> current_player, power |-> 3]]
                  /\ first_moves' = [first_moves EXCEPT ![current_player] = FALSE]
                  /\ queue' = << >>
                  /\ pc' = "explode"
             ELSE /\ pc' = "ignored"
                  /\ UNCHANGED <<grid, first_moves, queue>>
       /\ (~AtRest /\ queue = << >>)
          => UNCHANGED <<grid, first_moves>>]_vars

\* the first mover's first move was accepted and its call has returned
C5_Witness ==
    /\ pc = "idle"
    /\ moves = 1
    /\ current_player = player_order[2]
    /\ grid[arg] = [owner |-> player_order[1], power |-> 3]
    /\ ~first_moves[player_order[1]]

\* C6: when the elimination check runs with all first moves done and exactly
\* one player owns a cell, game_over becomes true and winner that player;
\* and whenever game_over holds, winner is a player who owns a cell while no
\* other player owns any.
C6_WinCondition ==
    /\ [](game_over => /\ winner \in Players
                       /\ Owners = {winner})
    /\ [][(pc = "explode" /\ queue = << >> /\ AllFirstMovesDone
           /\ Cardinality(Owners) = 1)
          => (game_over' /\ Owners = {winner'})]_vars

\* the game was won by a player other than player 0
C6_Witness ==
    /\ game_over
    /\ winner \in Players \ {0}
    /\ Owners = {winner}

\* C7: once game_over is true no later step changes the board, winner,
\* game_over, current_player or turn_number.
C7_GameOverAbsorbing ==
    [][game_over => /\ AtRest'
                    /\ UNCHANGED <<grid, winner, game_over, current_player,
                                   turn_number, first_moves, players_alive,
                                   queue>>]_vars

\* the game is over and the winner, still the current player, has since
\* clicked on a cell of its own; the call returned without placing
C7_Witness ==
    /\ game_over
    /\ pc = "ignored"
    /\ current_player = winner
    /\ grid[arg].owner = winner

\* C8: while some player has not made a first move, game_over is false,
\* winner is unset and every player is marked alive.
C8_EliminationGating ==
    (\E p \in Players : first_moves[p])
        => /\ ~game_over
           /\ winner = None
           /\ \A p \in Players : players_alive[p]

\* the elimination check has run with a first move pending while a single
\* player owned cells
C8_Witness ==
    /\ pc = "idle"
    /\ moves = 1
    /\ Cardinality(Owners) = 1
    /\ \E p \in Players : first_moves[p]

\* C9: once all first moves are done and a player owns no cell at rest, that
\* player is not the current player in any later state at rest in which the
\* game is not over and another player owns a cell.
C9_TurnSkip ==
    (AtRest /\ ~game_over /\ Owners # {}) => current_player \notin out

\* the turn has just passed over a player without cells
C9_Witness ==
    /\ AtRest
    /\ AllFirstMovesDone
    /\ ~game_over
    /\ player_order[PreviousTurn + 1] \in out
    /\ HasTiles(grid, current_player)

\* C10: after every elimination check some player is alive, and after a
\* completed legal placement that does not end the game the current player
\* owns a cell.
C10_SomeoneAliveAndMoverOwns ==
    /\ \E p \in Players : players_alive[p]
    /\ (AtRest /\ AllFirstMovesDone /\ ~game_over) => HasTiles(grid, current_player)

\* the cells orthogonally next to a cell on the board, without wraparound
Adjacent(cell) ==
    {n \in Cells : \/ n[1] = cell[1] /\ (n[2] = cell[2] + 1 \/ n[2] = cell[2] - 1)
                   \/ n[2] = cell[2] /\ (n[1] = cell[1] + 1 \/ n[1] = cell[1] - 1)}

\* the number of neighbours of a corner, an edge and an interior cell
NeighbourCount(cell) ==
    4 - (IF cell[1] \in {0, ROWS - 1} THEN 1 ELSE 0)
      - (IF cell[2] \in {0, COLS - 1} THEN 1 ELSE 0)

\* the call in progress placed on a cell of power 3 whose neighbours all have
\* power at most 2, and nothing has exploded yet
SingleExplosionDue ==
    /\ pc = "explode"
    /\ queue = << <<arg[1], arg[2], 0>> >>
    /\ grid[arg] = [owner |-> current_player, power |-> 4]
    /\ \A n \in Adjacent(arg) : grid[n].power <= 2

\* C11: a legal placement that brings a cell from power 3 to power 4 while
\* all its neighbours have power at most 2 is followed by exactly one
\* explosion: the placed cell ends at (None, 0), each of its 2, 3 or 4
\* neighbours (no wraparound) gains 1 power and belongs to the mover, and no
\* other cell changes in the call.
C11_SingleExplosion ==
    [][/\ (AtRest /\ pc' = "explode" /\ grid[arg'].power = 3
             /\ ~first_moves[current_player])
          => /\ grid' = [grid EXCEPT ![arg'] = [owner |-> current_player, power |-> 4]]
             /\ queue' = << <<arg'[1], arg'[2], 0>> >>
             /\ current_player' = current_player
       /\ SingleExplosionDue
          => /\ Cardinality(Adjacent(arg)) = NeighbourCount(arg)
             /\ grid' = [cell \in Cells |->
                           IF cell = arg THEN [owner |-> None, power |-> 0]
                           ELSE IF cell \in Adjacent(arg)
                                THEN [owner |-> current_player,
                                      power |-> grid[cell].power + 1]
                                ELSE grid[cell]]
             /\ queue' = << >>
             /\ pc' = "explode"
       /\ (~AtRest /\ queue = << >>) => grid' = grid]_vars

\* the fifth placement of a game was made by the first mover on its corner
\* cell next to two empty cells, and the call has returned
C11_Witness ==
    /\ pc = "idle"
    /\ moves = 5
    /\ arg = <<0, 0>>
    /\ grid[<<0, 0>>] = [owner |-> None, power |-> 0]
    /\ grid[<<0, 1>>] = [owner |-> player_order[1], power |-> 1]
    /\ grid[<<1, 0>>] = [owner |-> player_order[1], power |-> 1]

\* C12: when the elimination check runs with all first moves done and no
\* player owns a cell, game_over becomes true and winner stays unset.
C12_NobodyLeftEndsGame ==
    [][(pc = "explode" /\ queue = << >> /\ AllFirstMovesDone /\ Owners = {})
        => (game_over' /\ winner' = None)]_vars

\* C13: the entry about to be dequeued refers to a cell that holds at least
\* capacity power and has an owner: no cell explodes below capacity or
\* unowned.
C13_DequeuedCellIsFull ==
    (pc = "explode" /\ queue # << >>)
        => LET cell == <<Head(queue)[1], Head(queue)[2]>>
           IN  /\ grid[cell].power >= Capacity
               /\ grid[cell].owner # None

\* the cell of the entry at the head of the queue
HeadCell == <<Head(queue)[1], Head(queue)[2]>>

\* the neighbours of the head cell that an explosion of it brings to capacity
BroughtToCapacity == {n \in Adjacent(HeadCell) : grid[n].power + 1 >= 4}

\* C14: one explosion resets the dequeued cell to (None, 0), gives each of
\* its in-bounds neighbours one more power and the owner the exploding cell
\* had before the reset, whatever the neighbour's owner was, appends to the
\* queue exactly the neighbours whose power is now at least 4, and changes
\* no other cell and nothing of the turn and elimination state.  (Only the
\* explosions the model follows are looked at: the queue is within MaxQueue.)
C14_ExplosionStep ==
    [][(pc = "explode" /\ queue # << >> /\ Len(queue) <= MaxQueue)
        => /\ grid' = [cell \in Cells |->
                         IF cell = HeadCell THEN [owner |-> None, power |-> 0]
                         ELSE IF cell \in Adjacent(HeadCell)
                              THEN [owner |-> grid[HeadCell].owner,
                                    power |-> grid[cell].power + 1]
                              ELSE grid[cell]]
           /\ Len(queue') = Len(queue) - 1 + Cardinality(BroughtToCapacity)
           /\ SubSeq(queue', 1, Len(queue) - 1) = Tail(queue)
           /\ {<<queue'[i][1], queue'[i][2]>> : i \in Len(queue) .. Len(queue')}
                 = BroughtToCapacity
           /\ UNCHANGED <<current_player, player_order, turn_number, first_moves,
                          players_alive, game_over, winner>>]_vars

\* C15: the entries of the scan carry wave 0; an explosion of wave w takes
\* the oldest entry, keeps the others in their order and appends its new
\* entries behind them with wave w + 1; so the entry dequeued next never has
\* a smaller wave than the one dequeued before it.
C15_BreadthFirst ==
    [][/\ (AtRest /\ pc' = "explode")
          => \A i \in 1 .. Len(queue') : queue'[i][3] = 0
       /\ (pc = "explode" /\ queue # << >> /\ Len(queue) <= MaxQueue)
          => /\ Len(queue') >= Len(queue) - 1
             /\ SubSeq(queue', 1, Len(queue) - 1) = Tail(queue)
             /\ \A i \in Len(queue) .. Len(queue') :
                    queue'[i][3] = Head(queue)[3] + 1
             /\ queue' # << >> => Head(queue')[3] >= Head(queue)[3]]_vars

\* an entry of wave 1 is about to be dequeued with one of wave 2 behind it
C15_Witness ==
    /\ pc = "explode"
    /\ Len(queue) >= 2
    /\ Head(queue)[3] = 1
    /\ queue[Len(queue)][3] = 2

\* the player at a position of player_order, positions counted from 0
PlayerAt(t) == player_order[(t % PLAYERS) + 1]

\* how many positions the turn has moved forward, cyclically, since the
\* latest legal placement: 1 .. PLAYERS
TurnDistance == ((turn_number + PLAYERS - mover_turn - 1) % PLAYERS) + 1

\* C16: after a legal placement that has returned without ending the game,
\* the turn is at the nearest position after the mover's, cyclically, whose
\* player is alive, every player passed over being dead; in every state
\* current_player is player_order[turn_number], and player_order is a
\* permutation of the players that never changes.
C16_TurnAdvance ==
    /\ [](/\ current_player = player_order[turn_number + 1]
          /\ \A p \in Players : \E i \in 1 .. PLAYERS : player_order[i] = p
          /\ (AtRest /\ moves > 0 /\ ~game_over)
             => /\ players_alive[current_player]
                /\ \A k \in 1 .. (TurnDistance - 1) :
                      ~players_alive[PlayerAt(mover_turn + k)])
    /\ [][player_order' = player_order]_vars

\* a placement has returned and the turn has passed over a dead player
C16_Witness ==
    /\ pc = "idle"
    /\ moves > 0
    /\ ~game_over
    /\ TurnDistance >= 2
    /\ ~players_alive[PlayerAt(mover_turn + 1)]

\* C17: in a call the elimination state changes only once the propagation
\* queue is empty, and the turn changes only after that and only when the
\* elimination check did not end the game; once the game is over the turn is
\* still where the last placement was made and current_player is its mover;
\* after a placement that did not end the game the turn has moved on.
C17_CallOrder ==
    /\ [][/\ (players_alive' # players_alive \/ game_over' # game_over
                \/ winner' # winner)
             => (pc = "explode" /\ queue = << >>)
          /\ (turn_number' # turn_number \/ current_player' # current_player)
             => /\ ~game_over'
                /\ \/ pc = "explode" /\ queue = << >>
                   \/ pc = "skip"
          /\ pc' = "skip" => (pc = "skip" \/ (pc = "explode" /\ queue = << >>))]_vars
    /\ [](game_over => /\ turn_number = mover_turn
                       /\ current_player = PlayerAt(mover_turn))
    /\ []((AtRest /\ moves > 0 /\ ~game_over) => turn_number # mover_turn)

\* the placement that ended the game has returned: its mover, who is still
\* the current player, is the only player alive
C17_Witness ==
    /\ pc = "idle"
    /\ game_over
    /\ turn_number = mover_turn
    /\ \A p \in Players : players_alive[p] <=> p = current_player

\* C18: once every player has made a first move, after every completed
\* place_tile call a player is marked alive if and only if it owns at least
\* one cell.
C18_AliveIffOwnsCell ==
    (AtRest /\ \A p \in Players : ~first_moves[p])
        => \A p \in Players :
              players_alive[p] <=> \E cell \in Cells : grid[cell].owner = p

\* a placement has returned with the game going on, one player marked dead
\* and another, who owns no cell in the top row, marked alive
C18_Witness ==
    /\ pc = "idle"
    /\ ~game_over
    /\ \E p \in Players : ~players_alive[p]
    /\ \E p \in Players :
          /\ players_alive[p]
          /\ \A cell \in Cells : grid[cell].owner = p => cell[1] > 0

\* the cells a player owns in a grid
CellsOf(g, p) == {cell \in Cells : g[cell].owner = p}

\* C19: no step of a place_tile call gives a cell to a player other than the
\* current player, who is the mover as long as the grid changes: the cells of
\* every other player only become fewer.  So a player seen without a cell
\* when a placement returned, all first moves done, owns no cell in any later
\* state, and no player goes from dead back to alive.
C19_OnlyMoverGainsCells ==
    /\ [][/\ \A q \in Players \ {current_player} :
                CellsOf(grid', q) \subseteq CellsOf(grid, q)
          /\ grid' # grid => /\ current_player' = current_player
                             /\ current_player = PlayerAt(mover_turn')
          /\ \A p \in Players : ~players_alive[p] => ~players_alive'[p]]_vars
    /\ [](\A p \in out : CellsOf(grid, p) = {})

\* a player was seen without a cell when a placement returned, and in a
\* later call the placed cell has exploded and its cascade has run out
C19_Witness ==
    /\ pc = "explode"
    /\ queue = << >>
    /\ out # {}
    /\ ~(\E p \in Players : first_moves[p])
    /\ grid[arg].owner = None
    /\ \E n \in Adjacent(arg) : grid[n].owner = current_player

\* the players at the first k positions of player_order
FirstInOrder(k) == {player_order[i] : i \in 1 .. k}

\* C20: the first PLAYERS legal placements are the first moves of the
\* players in the sequence of player_order; up to and including the last of
\* them nothing explodes and nobody is eliminated, and each player who has
\* moved owns exactly one cell, of power 3, the others none; after PLAYERS
\* placements no first move is pending, and a first move once made is never
\* pending again.
C20_OpeningRound ==
    /\ [](moves <= PLAYERS
          => /\ \A p \in Players : first_moves[p] <=> p \notin FirstInOrder(moves)
             /\ moves > 0 => mover_turn = moves - 1
             /\ AtRest => turn_number = moves % PLAYERS
             /\ \A p \in FirstInOrder(moves) :
                   /\ Cardinality(CellsOf(grid, p)) = 1
                   /\ \A cell \in CellsOf(grid, p) : grid[cell].power = 3
             /\ \A cell \in Cells :
                   grid[cell].owner \notin FirstInOrder(moves)
                      => grid[cell] = [owner |-> None, power |-> 0]
             /\ queue = << >>
             /\ ~game_over /\ winner = None
             /\ \A p \in Players : players_alive[p])
    /\ [](moves >= PLAYERS => \A p \in Players : ~first_moves[p])
    /\ [][\A p \in Players : ~first_moves[p] => ~first_moves'[p]]_vars

\* the last first move has returned: every player owns one cell of power 3
\* and the turn is back at the first player of the order
C20_Witness ==
    /\ pc = "idle"
    /\ moves = PLAYERS
    /\ current_player = player_order[1]
    /\ \A p \in Players : /\ ~first_moves[p]
                          /\ \E cell \in Clicks : grid[cell] = [owner |-> p, power |-> 3]

\* C21: once a place_tile call has set game_over, the winner recorded is the
\* player who made that placement: a player only wins on its own move.
C21_WinnerIsMover ==
    game_over => winner = PlayerAt(mover_turn)
====
